---- MODULE Spec2Model ----
(***************************************************************************)
(* basedlang: the Pratt parser (parser/parser.go) and the tree-walking     *)
(* evaluator (evaluator/evaluator.go).                                     *)
(*                                                                         *)
(* Spec      : a token sequence is parsed by Parser.Parse, one iteration   *)
(*             of each loop per step, and the Program is then evaluated.   *)
(* FairSpec  : Spec with weak fairness (the parser is a running process).  *)
(* EvalSpec  : Eval applied to syntax trees handed to it directly.         *)
(***************************************************************************)
EXTENDS Integers, Sequences, FiniteSets, TLC

VARIABLES
    p,        \* the Parser struct: l (the lexer), curTok, peekTok, errors
    program,  \* Parse's local `program.Statements`
    stmt,     \* the statement parseLetStatement/parseReturnStatement is building
    pc,       \* where the parser is: "Parse", "letSkip", "returnSkip", "done"
    ast,      \* the node handed to Eval (Nil until there is one)
    heap,     \* the runtime objects, by address
    result,   \* address returned by the last Eval call (0 = Go nil)
    panic,    \* runtime fault raised by the last Eval call ("" = none)
    trace,    \* the Eval calls of the last evaluation, entries and exits in order
    evals,    \* number of Eval calls made on ast
    prev      \* what the previous Eval call on ast returned, as the caller sees it

vars == <<p, program, stmt, pc, ast, heap, result, panic, trace, evals, prev>>

parserVars == <<p, program, stmt, pc>>
evalVars == <<heap, result, panic, trace, evals, prev>>

(***************************************************************************)
(* Bounds                                                                  *)
(***************************************************************************)
MaxInt == 2        \* integer literals of generated trees are 0..MaxInt
MaxEvals == 2      \* Eval calls per tree
MaxToks == 2       \* length of the unstructured token sequences
MaxChunks == 2     \* statements per structured token sequence
MaxStmts == 2      \* statements per generated block or program

(***************************************************************************)
(* Go values                                                               *)
(***************************************************************************)
\* the nil interface value (ast.Node, ast.Statement, ast.Expression)
Nil == [kind |-> "nil"]

\* a nil *ast.LetStatement stored in an ast.Statement interface: the interface
\* holds a dynamic type, so it does not compare equal to nil
NilLetStatement == [kind |-> "LetStatement", isNilPtr |-> TRUE]

\* x == nil on an interface value: true only of the interface with no dynamic type
IsNil(x) == x.kind = "nil"

Abs(x) == IF x < 0 THEN -x ELSE x

\* Go's integer division truncates toward zero
TruncDiv(a, b) ==
    LET q == Abs(a) \div Abs(b)
    IN  IF (a < 0) = (b < 0) THEN q ELSE -q

(***************************************************************************)
(* Tokens and the lexer                                                    *)
(***************************************************************************)
\* a token: its type, its literal text, and for INT the digits of the literal
Tok(t, lit) == [type |-> t, lit |-> lit, digits |-> <<>>]
IntTok(ds) == [type |-> "INT", lit |-> "", digits |-> ds]
EOFTok == Tok("EOF", "")

\* lexer.NextToken: the next token of the input, end-of-input forever after it
NextTokenOf(l) ==
    IF l.position <= Len(l.input)
    THEN [tok |-> l.input[l.position],
          l |-> [l EXCEPT !.position = l.position + 1]]
    ELSE [tok |-> EOFTok, l |-> l]

(***************************************************************************)
(* Parser                                                                  *)
(***************************************************************************)
LOWEST == 1
EQUALS == 2
LESSGREATER == 3
SUM == 4
PRODUCT == 5
PREFIX == 6
CALL == 7

nextToken(q) ==
    LET n == NextTokenOf(q.l)
    IN  [q EXCEPT !.curTok = q.peekTok, !.peekTok = n.tok, !.l = n.l]

\* New: a parser on the lexer, curTok and peekTok set
New(input) ==
    nextToken(nextToken([l |-> [input |-> input, position |-> 1],
                         curTok |-> EOFTok, peekTok |-> EOFTok,
                         errors |-> <<>>]))

\* the token types New registers a prefix function for
PrefixTypes == {"IDENT", "INT", "TRUE", "FALSE", "BANG", "MINUS", "LPAREN"}

\* the token types New registers parseInfixExpression for
InfixTypes == {"EQ", "NEQ", "LT", "GT", "LTE", "GTE",
               "PLUS", "MINUS", "ASTERISK", "SLASH"}

getPrecedence(t) ==
    CASE t \in {"EQ", "NEQ"} -> EQUALS
      [] t \in {"LT", "GT", "LTE", "GTE"} -> LESSGREATER
      [] t \in {"PLUS", "MINUS"} -> SUM
      [] t \in {"ASTERISK", "SLASH"} -> PRODUCT
      [] OTHER -> LOWEST

curPrecedence(q) == getPrecedence(q.curTok.type)
peekPrecedence(q) == getPrecedence(q.peekTok.type)
curTokenIs(q, t) == q.curTok.type = t
peekTokenIs(q, t) == q.peekTok.type = t

peekErr(q, t) ==
    [q EXCEPT !.errors = Append(q.errors,
        "expected next token to be " \o t \o ", got " \o q.peekTok.type \o " instead")]

noPrefixParseFnErr(q, t) ==
    [q EXCEPT !.errors = Append(q.errors, "no prefix parse function found for " \o t)]

\* expectPeek, were it to advance past the unexpected token as well
expectPeekConsuming(q, t) ==
    IF peekTokenIs(q, t)
    THEN [ok |-> TRUE, p |-> nextToken(q)]
    ELSE [ok |-> FALSE, p |-> nextToken(peekErr(q, t))]

\* expectPeek: advance when the peek token has type t, else record a diagnostic
expectPeek(q, t) ==
    IF peekTokenIs(q, t)
    THEN [ok |-> TRUE, p |-> nextToken(q)]
    ELSE [ok |-> FALSE, p |-> peekErr(q, t)]

RECURSIVE DigitsValue(_, _)
DigitsValue(ds, base) ==
    IF ds = <<>> THEN 0
    ELSE DigitsValue(SubSeq(ds, 1, Len(ds) - 1), base) * base + ds[Len(ds)]

\* strconv.ParseInt(literal, 0, 64) on a literal of decimal digits: a leading 0
\* selects base 8. (The literals of this model have at most three digits, so
\* the 64-bit range error cannot arise and int64 arithmetic on them is exact.)
ParseInt(ds) ==
    LET base == IF Len(ds) > 1 /\ ds[1] = 0 THEN 8 ELSE 10
        v == DigitsValue(ds, base)
    IN  IF ds = <<>> \/ (\E i \in 1..Len(ds) : ds[i] >= base)
        THEN [ok |-> FALSE, value |-> 0]
        ELSE [ok |-> TRUE, value |-> v]

parseIdentifier(q) ==
    [p |-> q, e |-> [kind |-> "Identifier", value |-> q.curTok.lit]]

\* the literal text of an INT token
RECURSIVE DigitsText(_)
DigitsText(ds) ==
    IF ds = <<>> THEN ""
    ELSE (CASE Head(ds) = 0 -> "0" [] Head(ds) = 1 -> "1" [] Head(ds) = 2 -> "2"
            [] Head(ds) = 3 -> "3" [] Head(ds) = 4 -> "4" [] Head(ds) = 5 -> "5"
            [] Head(ds) = 6 -> "6" [] Head(ds) = 7 -> "7" [] Head(ds) = 8 -> "8"
            [] Head(ds) = 9 -> "9")
         \o DigitsText(Tail(ds))

parseIntLiteral(q) ==
    LET r == ParseInt(q.curTok.digits)
    IN  IF ~r.ok
        THEN [p |-> [q EXCEPT !.errors =
                        Append(q.errors, "could not parse \"" \o DigitsText(q.curTok.digits)
                                         \o "\" as integer")],
              e |-> Nil]
        ELSE [p |-> q, e |-> [kind |-> "IntLiteral", value |-> r.value]]

parseBoolean(q) ==
    [p |-> q, e |-> [kind |-> "Boolean", value |-> curTokenIs(q, "TRUE")]]

\* F applied to the value of x, x evaluated once
Bind(x, F(_)) == CHOOSE y \in {F(v) : v \in {x}} : TRUE

RECURSIVE parseExpression(_, _)
RECURSIVE parseExpressionLoop(_, _, _)
RECURSIVE parseGroupedExpression(_)
RECURSIVE parsePrefixExpression(_)
RECURSIVE parseInfixExpression(_, _)

parseGroupedExpression(q) ==
    Bind(parseExpression(nextToken(q), LOWEST), LAMBDA r :
        Bind(expectPeek(r.p, "RPAREN"), LAMBDA x :
            IF ~x.ok THEN [p |-> x.p, e |-> Nil] ELSE [p |-> x.p, e |-> r.e]))

parsePrefixExpression(q) ==
    Bind(parseExpression(nextToken(q), PREFIX), LAMBDA r :
        [p |-> r.p,
         e |-> [kind |-> "PrefixExpression", op |-> q.curTok.lit, right |-> r.e]])

\* parseInfixExpression, were the right operand parsed one level lower
parseInfixExpressionLower(q, left) ==
    Bind(parseExpression(nextToken(q), curPrecedence(q) - 1), LAMBDA r :
        [p |-> r.p,
         e |-> [kind |-> "InfixExpression", left |-> left,
                op |-> q.curTok.lit, right |-> r.e]])

parseInfixExpression(q, left) ==
    Bind(parseExpression(nextToken(q), curPrecedence(q)), LAMBDA r :
        [p |-> r.p,
         e |-> [kind |-> "InfixExpression", left |-> left,
                op |-> q.curTok.lit, right |-> r.e]])

\* the prefix function registered for the current token's type
prefixFn(q) ==
    CASE q.curTok.type = "IDENT" -> parseIdentifier(q)
      [] q.curTok.type = "INT" -> parseIntLiteral(q)
      [] q.curTok.type \in {"TRUE", "FALSE"} -> parseBoolean(q)
      [] q.curTok.type \in {"BANG", "MINUS"} -> parsePrefixExpression(q)
      [] q.curTok.type = "LPAREN" -> parseGroupedExpression(q)

\* the for loop of parseExpression
parseExpressionLoop(q, pr, leftExpr) ==
    IF ~peekTokenIs(q, "SEMICOLON") /\ pr < peekPrecedence(q)
    THEN IF q.peekTok.type \notin InfixTypes
         THEN [p |-> q, e |-> leftExpr]
         ELSE Bind(parseInfixExpression(nextToken(q), leftExpr), LAMBDA r :
                  parseExpressionLoop(r.p, pr, r.e))
    ELSE [p |-> q, e |-> leftExpr]

parseExpression(q, pr) ==
    IF q.curTok.type \notin PrefixTypes
    THEN [p |-> noPrefixParseFnErr(q, q.curTok.type), e |-> Nil]
    ELSE Bind(prefixFn(q), LAMBDA r : parseExpressionLoop(r.p, pr, r.e))

parseExpressionStatement(q) ==
    Bind(parseExpression(q, LOWEST), LAMBDA r :
        [p |-> IF peekTokenIs(r.p, "SEMICOLON") THEN nextToken(r.p) ELSE r.p,
         s |-> [kind |-> "ExpressionStatement", expr |-> r.e]])

\* ---- the parser as a step function on <<p, program, stmt, pc>> ----

\* Parse, lines 94-97: keep the statement unless the interface is nil, advance
appendAndAdvance(s, st) ==
    [p |-> nextToken(s.p),
     program |-> IF ~IsNil(st) THEN Append(s.program, st) ELSE s.program,
     stmt |-> Nil,
     pc |-> "Parse"]

\* one iteration of Parse's loop on a `let`, up to parseLetStatement's skip loop
LetStep(s) ==
    Bind(expectPeek(s.p, "IDENT"), LAMBDA a :
        IF ~a.ok THEN appendAndAdvance([s EXCEPT !.p = a.p], NilLetStatement)
        ELSE Bind(expectPeek(a.p, "ASSIGN"), LAMBDA b :
            IF ~b.ok THEN appendAndAdvance([s EXCEPT !.p = b.p], NilLetStatement)
            ELSE [s EXCEPT !.p = b.p, !.pc = "letSkip",
                           !.stmt = [kind |-> "LetStatement", isNilPtr |-> FALSE,
                                     name |-> a.p.curTok.lit]]))

\* one iteration of Parse's loop on a `return`, up to the skip loop
ReturnStep(s) ==
    [s EXCEPT !.p = nextToken(s.p), !.pc = "returnSkip",
              !.stmt = [kind |-> "ReturnStatement", returnValue |-> Nil]]

\* one iteration of Parse's loop on an expression statement
ExprStep(s) ==
    Bind(parseExpressionStatement(s.p), LAMBDA r :
        appendAndAdvance([s EXCEPT !.p = r.p], r.s))

\* one iteration of `for !p.curTokenIs(token.SEMICOLON) { p.nextToken() }`
SkipStep(s) == [s EXCEPT !.p = nextToken(s.p)]

\* the skip loop ends on a semicolon: the statement is returned to Parse
SkipEndStep(s) == appendAndAdvance(s, s.stmt)

\* Parse's loop ends on end-of-input
FinishStep(s) == [s EXCEPT !.pc = "done"]

ParserStep(s) ==
    CASE s.pc = "Parse" /\ curTokenIs(s.p, "EOF") -> FinishStep(s)
      [] s.pc = "Parse" /\ curTokenIs(s.p, "LET") -> LetStep(s)
      [] s.pc = "Parse" /\ curTokenIs(s.p, "RETURN") -> ReturnStep(s)
      [] s.pc = "Parse" /\ s.p.curTok.type \notin {"EOF", "LET", "RETURN"} -> ExprStep(s)
      [] s.pc \in {"letSkip", "returnSkip"} /\ curTokenIs(s.p, "SEMICOLON") -> SkipEndStep(s)
      [] s.pc \in {"letSkip", "returnSkip"} /\ ~curTokenIs(s.p, "SEMICOLON") -> SkipStep(s)
      [] OTHER -> s

StartParse(input) ==
    [p |-> New(input), program |-> <<>>, stmt |-> Nil, pc |-> "Parse"]

\* Parse run for at most `fuel` loop iterations
RECURSIVE ParseRun(_, _)
ParseRun(s, fuel) ==
    IF fuel = 0 \/ s.pc = "done" THEN s ELSE ParseRun(ParserStep(s), fuel - 1)

(***************************************************************************)
(* Runtime values and the evaluator                                        *)
(***************************************************************************)
\* addresses of the package-level singletons
NULL == 1
TRUE_ == 2
FALSE_ == 3

\* the heap once the package is initialised
InitHeap == <<[kind |-> "NULL"],
              [kind |-> "BOOLEAN", value |-> TRUE],
              [kind |-> "BOOLEAN", value |-> FALSE]>>

\* object.Object.Type() of the object at a non-nil address
Type(h, ref) == h[ref].kind

\* the state an evaluation threads through its calls
StartEval(h) == [heap |-> h, trace |-> <<>>, depth |-> 0, panic |-> ""]

Ret(ref, es) == [ref |-> ref, es |-> es]

Panic(es, msg) == Ret(0, [es EXCEPT !.panic = msg])

\* &object.X{...}: a new object at a fresh address
Alloc(es, obj) ==
    Ret(Len(es.heap) + 1, [es EXCEPT !.heap = Append(es.heap, obj)])

newError(es, msg) == Alloc(es, [kind |-> "ERROR", message |-> msg])

isError(es, ref) == ref # 0 /\ Type(es.heap, ref) = "ERROR"

nativeBoolToObjBool(val) == IF val THEN TRUE_ ELSE FALSE_

isTruthy(ref) ==
    CASE ref \in {NULL, FALSE_} -> FALSE
      [] ref = TRUE_ -> TRUE
      [] OTHER -> TRUE

evalIntegerInfixExpression(op, left, right, es) ==
    LET l == es.heap[left].value
        r == es.heap[right].value
        int(v) == Alloc(es, [kind |-> "INTEGER", value |-> v])
    IN  CASE op = "*" -> int(l * r)
          [] op = "/" -> IF r = 0 THEN Panic(es, "integer divide by zero")
                         ELSE int(TruncDiv(l, r))
          [] op = "+" -> int(l + r)
          [] op = "-" -> int(l - r)
          [] op = "<" -> Ret(nativeBoolToObjBool(l < r), es)
          [] op = "<=" -> Ret(nativeBoolToObjBool(l <= r), es)
          [] op = ">" -> Ret(nativeBoolToObjBool(l > r), es)
          [] op = ">=" -> Ret(nativeBoolToObjBool(l >= r), es)
          [] op = "==" -> Ret(nativeBoolToObjBool(l = r), es)
          [] op = "!=" -> Ret(nativeBoolToObjBool(l # r), es)
          [] OTHER -> newError(es, "unsupported operator: INTEGER " \o op \o " INTEGER")

\* evalInfixExpression, were the operand types compared before the equality cases
evalInfixExpressionTypesFirst(op, left, right, es) ==
    IF left = 0 \/ right = 0 THEN Panic(es, "nil pointer dereference")
    ELSE IF Type(es.heap, left) = "INTEGER" /\ Type(es.heap, right) = "INTEGER"
         THEN evalIntegerInfixExpression(op, left, right, es)
    ELSE IF Type(es.heap, left) # Type(es.heap, right)
         THEN newError(es, "type mismatch: " \o Type(es.heap, left) \o " " \o op
                           \o " " \o Type(es.heap, right))
    ELSE IF op = "==" THEN Ret(nativeBoolToObjBool(left = right), es)
    ELSE IF op = "!=" THEN Ret(nativeBoolToObjBool(left # right), es)
    ELSE newError(es, "unsupported operator: " \o Type(es.heap, left) \o " " \o op
                      \o " " \o Type(es.heap, right))

\* a method call on a nil interface is a nil-pointer dereference
evalInfixExpression(op, left, right, es) ==
    IF left = 0 THEN Panic(es, "nil pointer dereference")
    ELSE IF Type(es.heap, left) = "INTEGER" /\ right = 0
         THEN Panic(es, "nil pointer dereference")
    ELSE IF Type(es.heap, left) = "INTEGER" /\ Type(es.heap, right) = "INTEGER"
         THEN evalIntegerInfixExpression(op, left, right, es)
    ELSE IF op = "==" THEN Ret(nativeBoolToObjBool(left = right), es)
    ELSE IF op = "!=" THEN Ret(nativeBoolToObjBool(left # right), es)
    ELSE IF right = 0 THEN Panic(es, "nil pointer dereference")
    ELSE IF Type(es.heap, left) # Type(es.heap, right)
         THEN newError(es, "type mismatch: " \o Type(es.heap, left) \o " " \o op
                           \o " " \o Type(es.heap, right))
    ELSE newError(es, "unsupported operator: " \o Type(es.heap, left) \o " " \o op
                      \o " " \o Type(es.heap, right))

evalBangOperatorExpression(right, es) ==
    IF right # 0 /\ Type(es.heap, right) = "BOOLEAN"
    THEN Ret(nativeBoolToObjBool(~es.heap[right].value), es)
    ELSE IF right # 0 /\ Type(es.heap, right) = "INTEGER"
    THEN IF es.heap[right].value = 0 THEN Ret(TRUE_, es) ELSE Ret(FALSE_, es)
    ELSE Ret(FALSE_, es)

\* the Integer is negated in place and the same object is returned
evalMinusPrefixOperatorExpression(right, es) ==
    IF right # 0 /\ Type(es.heap, right) = "INTEGER"
    THEN Ret(right, [es EXCEPT !.heap[right].value = -es.heap[right].value])
    ELSE IF right = 0 THEN Panic(es, "nil pointer dereference")
    ELSE newError(es, "unsupported operator: -" \o Type(es.heap, right))

evalPrefixExpression(op, right, es) ==
    CASE op = "!" -> evalBangOperatorExpression(right, es)
      [] op = "-" -> evalMinusPrefixOperatorExpression(right, es)
      [] OTHER -> IF right = 0 THEN Panic(es, "nil pointer dereference")
                  ELSE newError(es, "unsupported operator: " \o op
                                    \o Type(es.heap, right))

\* what an exit event records of the returned object
Snapshot(h, ref) == IF ref = 0 THEN Nil ELSE h[ref]

RECURSIVE Eval(_, _)
RECURSIVE evalProgramLoop(_, _, _, _)
RECURSIVE evalBlockStatementsLoop(_, _, _, _)
RECURSIVE evalIfExpression(_, _)
RECURSIVE EvalReturnStatement(_, _)
RECURSIVE EvalPrefixExpression(_, _)
RECURSIVE EvalInfixExpression(_, _)

\* the loop of evalProgram from statement i on; res is the named result
evalProgramLoop(stmts, i, res, es) ==
    IF i > Len(stmts) THEN Ret(res, es)
    ELSE LET r == Eval(stmts[i], es)
         IN  IF r.es.panic # "" THEN r
             ELSE IF r.ref # 0 /\ Type(r.es.heap, r.ref) = "ERROR" THEN r
             ELSE IF r.ref # 0 /\ Type(r.es.heap, r.ref) = "RETURN_VALUE"
                  THEN Ret(r.es.heap[r.ref].value, r.es)
             ELSE evalProgramLoop(stmts, i + 1, r.ref, r.es)

evalProgram(stmts, es) == evalProgramLoop(stmts, 1, 0, es)

\* the loop of evalBlockStatements, were it to unwrap a ReturnValue as evalProgram does
evalBlockStatementsLoopUnwrapping(stmts, i, res, es) ==
    IF i > Len(stmts) THEN Ret(res, es)
    ELSE LET r == Eval(stmts[i], es)
         IN  IF r.es.panic # "" THEN r
             ELSE IF r.ref # 0 /\ Type(r.es.heap, r.ref) = "ERROR" THEN r
             ELSE IF r.ref # 0 /\ Type(r.es.heap, r.ref) = "RETURN_VALUE"
                  THEN Ret(r.es.heap[r.ref].value, r.es)
             ELSE evalBlockStatementsLoop(stmts, i + 1, r.ref, r.es)

\* the loop of evalBlockStatements from statement i on; res is the named result
evalBlockStatementsLoop(stmts, i, res, es) ==
    IF i > Len(stmts) THEN Ret(res, es)
    ELSE LET r == Eval(stmts[i], es)
         IN  IF r.es.panic # "" THEN r
             ELSE IF r.ref # 0 /\ Type(r.es.heap, r.ref) = "ERROR" THEN r
             ELSE IF r.ref # 0 /\ Type(r.es.heap, r.ref) = "RETURN_VALUE" THEN r
             ELSE evalBlockStatementsLoop(stmts, i + 1, r.ref, r.es)

evalBlockStatements(stmts, es) == evalBlockStatementsLoop(stmts, 1, 0, es)

evalIfExpression(ie, es) ==
    LET c == Eval(ie.cond, es)
    IN  IF c.es.panic # "" THEN c
        ELSE IF isError(c.es, c.ref) THEN c
        ELSE IF isTruthy(c.ref) THEN Eval(ie.body, c.es)
        ELSE IF ~IsNil(ie.else)
             THEN IF ie.else.kind \in {"BlockStatement", "IfExpression"}
                  THEN Eval(ie.else, c.es)
                  ELSE Ret(NULL, c.es)
        ELSE Ret(NULL, c.es)

\* Eval, case *ast.ReturnStatement
EvalReturnStatement(n, es) ==
    LET v == Eval(n.returnValue, es)
    IN  IF v.es.panic # "" THEN v
        ELSE IF isError(v.es, v.ref) THEN v
        ELSE Alloc(v.es, [kind |-> "RETURN_VALUE", value |-> v.ref])

\* the Integer objects on the heap
IntegerObjects(h) == {a \in 1..Len(h) : h[a].kind = "INTEGER"}

\* Eval of an IntLiteral, were the Integer object made once and kept for later calls
EvalIntLiteralMemoized(n, es) ==
    IF IntegerObjects(es.heap) # {}
    THEN Ret(CHOOSE a \in IntegerObjects(es.heap) :
                 \A b \in IntegerObjects(es.heap) : a <= b, es)
    ELSE Alloc(es, [kind |-> "INTEGER", value |-> n.value])

\* Eval, case *ast.IntLiteral
EvalIntLiteral(n, es) == Alloc(es, [kind |-> "INTEGER", value |-> n.value])

\* Eval, case *ast.PrefixExpression
EvalPrefixExpression(n, es) ==
    LET r == Eval(n.right, es)
    IN  IF r.es.panic # "" THEN r
        ELSE IF isError(r.es, r.ref) THEN r
        ELSE evalPrefixExpression(n.op, r.ref, r.es)

\* Eval of an InfixExpression, were the left operand not checked for an Error
EvalInfixExpressionUnchecked(n, es) ==
    LET l == Eval(n.left, es)
    IN  IF l.es.panic # "" THEN l
        ELSE LET r == Eval(n.right, l.es)
             IN  IF r.es.panic # "" THEN r
                 ELSE IF isError(r.es, r.ref) THEN r
                 ELSE evalInfixExpression(n.op, l.ref, r.ref, r.es)

\* Eval, case *ast.InfixExpression
EvalInfixExpression(n, es) ==
    LET l == Eval(n.left, es)
    IN  IF l.es.panic # "" THEN l
        ELSE IF isError(l.es, l.ref) THEN l
        ELSE LET r == Eval(n.right, l.es)
             IN  IF r.es.panic # "" THEN r
                 ELSE IF isError(r.es, r.ref) THEN r
                 ELSE evalInfixExpression(n.op, l.ref, r.ref, r.es)

\* the type switch of Eval; nil, Identifier and LetStatement nodes have no case
EvalSwitch(n, es) ==
    CASE n.kind = "Program" -> evalProgram(n.stmts, es)
      [] n.kind = "ExpressionStatement" -> Eval(n.expr, es)
      [] n.kind = "BlockStatement" -> evalBlockStatements(n.stmts, es)
      [] n.kind = "ReturnStatement" -> EvalReturnStatement(n, es)
      [] n.kind = "IntLiteral" -> EvalIntLiteral(n, es)
      [] n.kind = "Boolean" -> Ret(nativeBoolToObjBool(n.value), es)
      [] n.kind = "PrefixExpression" -> EvalPrefixExpression(n, es)
      [] n.kind = "InfixExpression" -> EvalInfixExpression(n, es)
      [] n.kind = "IfExpression" -> evalIfExpression(n, es)
      [] OTHER -> Ret(NULL, es)

\* Eval with its call recorded: an entry event, and an exit event with the
\* returned object unless a runtime fault unwinds the call
Eval(n, es) ==
    LET d == es.depth
        entered == [es EXCEPT !.depth = d + 1,
                       !.trace = Append(es.trace,
                           [ev |-> "enter", depth |-> d, node |-> n.kind,
                            ref |-> 0, obj |-> Nil])]
        r == EvalSwitch(n, entered)
    IN  IF r.es.panic # "" THEN r
        ELSE Ret(r.ref,
                 [r.es EXCEPT !.depth = d,
                     !.trace = Append(r.es.trace,
                         [ev |-> "exit", depth |-> d, node |-> n.kind,
                          ref |-> r.ref, obj |-> Snapshot(r.es.heap, r.ref)])])

\* the value a caller of Eval sees, objects followed through their addresses
RECURSIVE Render(_, _)
Render(h, ref) ==
    IF ref = 0 THEN <<"nil">>
    ELSE CASE h[ref].kind = "INTEGER" -> <<"INTEGER", h[ref].value>>
           [] h[ref].kind = "BOOLEAN" -> <<"BOOLEAN", h[ref].value>>
           [] h[ref].kind = "NULL" -> <<"NULL">>
           [] h[ref].kind = "ERROR" -> <<"ERROR", h[ref].message>>
           [] h[ref].kind = "RETURN_VALUE" -> <<"RETURN_VALUE", Render(h, h[ref].value)>>


\* what the caller of Eval observes: the fault, or the value returned
View(h, ref, pan) == IF pan # "" THEN <<"panic", pan>> ELSE Render(h, ref)

(***************************************************************************)
(* Inputs: token sequences                                                 *)
(***************************************************************************)
RECURSIVE SeqsUpTo(_, _)
\* the sequences of at most n elements of S
SeqsUpTo(S, n) ==
    IF n = 0 THEN {<<>>}
    ELSE LET shorter == SeqsUpTo(S, n - 1)
         IN  shorter \cup {Append(s, x) : s \in {t \in shorter : Len(t) = n - 1}, x \in S}

RECURSIVE Flatten(_)
Flatten(ss) == IF ss = <<>> THEN <<>> ELSE Head(ss) \o Flatten(Tail(ss))

\* the infix operators, token type and literal
InfixOps == {<<"EQ", "==">>, <<"NEQ", "!=">>, <<"LT", "<">>, <<"GT", ">">>,
             <<"LTE", "<=">>, <<"GTE", ">=">>, <<"PLUS", "+">>, <<"MINUS", "-">>,
             <<"ASTERISK", "*">>, <<"SLASH", "/">>}

OpTok(o) == Tok(o[1], o[2])
tLET == Tok("LET", "let")
tRETURN == Tok("RETURN", "return")
tIDENT == Tok("IDENT", "x")
tASSIGN == Tok("ASSIGN", "=")
tSEMI == Tok("SEMICOLON", ";")
tLPAREN == Tok("LPAREN", "(")
tRPAREN == Tok("RPAREN", ")")
tINT(i) == IntTok(<<i>>)

\* every kind of token: those the parser registers and some it does not
AllToks ==
    {OpTok(o) : o \in InfixOps}
    \cup {tLET, tRETURN, tIDENT, tASSIGN, tSEMI, tLPAREN, tRPAREN,
          Tok("TRUE", "true"), Tok("FALSE", "false"), Tok("BANG", "!"),
          Tok("IF", "if"), Tok("LBRACE", "{"), Tok("ILLEGAL", "?"),
          tINT(1), IntTok(<<0, 1, 0>>), IntTok(<<0, 8>>)}

\* a op1 b op2 c, with and without parentheses, on consecutive literals
ExprInputs ==
    UNION {LET a == tINT(i)
               b == tINT(i + 1)
               c == tINT(i + 2)
               o1 == OpTok(x)
               o2 == OpTok(y)
           IN  {<<a, o1, b, o2, c>>,
                <<tLPAREN, a, o1, b, tRPAREN, o2, c>>,
                <<a, o1, tLPAREN, b, o2, c, tRPAREN>>}
           : i \in 1..MaxInt, x \in InfixOps, y \in InfixOps}

\* statements, well formed and malformed
Chunks ==
    {<<tLET, tIDENT, tASSIGN, tINT(1), tSEMI>>,      \* let x = 1;
     <<tLET, tIDENT, tASSIGN, tINT(1)>>,             \* let x = 1
     <<tLET, tIDENT, tINT(1), tSEMI>>,               \* let x 1;
     <<tLET, tINT(1), tSEMI>>,                       \* let 1;
     <<tRETURN, tINT(1), tSEMI>>,                    \* return 1;
     <<tRETURN, tINT(1)>>,                           \* return 1
     <<tINT(2), tSEMI>>,                             \* 2;
     <<tINT(2), OpTok(<<"PLUS", "+">>), Tok("TRUE", "true"), tSEMI>>,  \* 2 + true;
     <<OpTok(<<"MINUS", "-">>), tINT(2), tSEMI>>,    \* -2;
     <<tLPAREN, tINT(2), tSEMI>>}                    \* (2;

ChunkInputs == {Flatten(cs) : cs \in SeqsUpTo(Chunks, MaxChunks)}

TokenInputs == ExprInputs \cup ChunkInputs \cup SeqsUpTo(AllToks, MaxToks)

(***************************************************************************)
(* Specification of the parser, followed by the evaluation of its Program  *)
(***************************************************************************)
NoView == <<"none">>

InitEvalVars ==
    /\ heap = InitHeap
    /\ result = 0
    /\ panic = ""
    /\ trace = <<>>
    /\ evals = 0
    /\ prev = NoView

Init ==
    /\ \E input \in TokenInputs : p = New(input)
    /\ program = <<>>
    /\ stmt = Nil
    /\ pc = "Parse"
    /\ ast = Nil
    /\ InitEvalVars

Cur == [p |-> p, program |-> program, stmt |-> stmt, pc |-> pc]

Becomes(s) ==
    /\ p' = s.p
    /\ program' = s.program
    /\ stmt' = s.stmt
    /\ pc' = s.pc

ParseLet ==
    /\ pc = "Parse" /\ curTokenIs(p, "LET")
    /\ \E s \in {LetStep(Cur)} : Becomes(s)
    /\ UNCHANGED <<ast, evalVars>>

ParseReturn ==
    /\ pc = "Parse" /\ curTokenIs(p, "RETURN")
    /\ \E s \in {ReturnStep(Cur)} : Becomes(s)
    /\ UNCHANGED <<ast, evalVars>>

ParseExpr ==
    /\ pc = "Parse" /\ p.curTok.type \notin {"EOF", "LET", "RETURN"}
    /\ \E s \in {ExprStep(Cur)} : Becomes(s)
    /\ UNCHANGED <<ast, evalVars>>

SkipToken ==
    /\ pc \in {"letSkip", "returnSkip"} /\ ~curTokenIs(p, "SEMICOLON")
    /\ \E s \in {SkipStep(Cur)} : Becomes(s)
    /\ UNCHANGED <<ast, evalVars>>

SkipEnd ==
    /\ pc \in {"letSkip", "returnSkip"} /\ curTokenIs(p, "SEMICOLON")
    /\ \E s \in {SkipEndStep(Cur)} : Becomes(s)
    /\ UNCHANGED <<ast, evalVars>>

\* Parse returns the Program
ParseFinish ==
    /\ pc = "Parse" /\ curTokenIs(p, "EOF")
    /\ \E s \in {FinishStep(Cur)} : Becomes(s)
    /\ ast' = [kind |-> "Program", stmts |-> program]
    /\ UNCHANGED evalVars

\* a call of Eval on the tree
EvalCall ==
    /\ pc = "done"
    /\ evals < MaxEvals
    /\ \E r \in {Eval(ast, StartEval(heap))} :
           /\ heap' = r.es.heap
           /\ result' = r.ref
           /\ panic' = r.es.panic
           /\ trace' = r.es.trace
    /\ evals' = evals + 1
    /\ prev' = IF evals = 0 THEN NoView ELSE View(heap, result, panic)
    /\ UNCHANGED <<parserVars, ast>>

\* the steps of Parser.Parse
ParserNext ==
    \/ ParseLet
    \/ ParseReturn
    \/ ParseExpr
    \/ SkipToken
    \/ SkipEnd
    \/ ParseFinish

Next == ParserNext \/ EvalCall

Spec == Init /\ [][Next]_vars

\* Parse, once called, runs: it takes its next step whenever it has one
FairSpec == Spec /\ WF_vars(ParserNext)

(***************************************************************************)
(* Inputs: syntax trees                                                    *)
(***************************************************************************)
IntLit(i) == [kind |-> "IntLiteral", value |-> i]
Bool(b) == [kind |-> "Boolean", value |-> b]
Prefix(op, r) == [kind |-> "PrefixExpression", op |-> op, right |-> r]
Infix(op, l, r) == [kind |-> "InfixExpression", left |-> l, op |-> op, right |-> r]
If(c, b, e) == [kind |-> "IfExpression", cond |-> c, body |-> b, else |-> e]
Block(ss) == [kind |-> "BlockStatement", stmts |-> ss]
ExprStmt(e) == [kind |-> "ExpressionStatement", expr |-> e]
Return(e) == [kind |-> "ReturnStatement", returnValue |-> e]
Program(ss) == [kind |-> "Program", stmts |-> ss]

Ident(name) == [kind |-> "Identifier", value |-> name]

Atoms == {IntLit(i) : i \in 0..MaxInt} \cup {Bool(TRUE), Bool(FALSE), Ident("x")}

\* operator strings: those the evaluator knows and one of each sort it does not
InfixLits == {o[2] : o \in InfixOps} \cup {"%"}
PrefixLits == {"!", "-", "+"}

\* expressions on literals
Simple ==
    Atoms \cup {Prefix(o, a) : o \in PrefixLits, a \in Atoms}
          \cup {Infix(o, a, b) : o \in InfixLits, a \in Atoms, b \in Atoms}

\* operators on the results of operators
Compound ==
    {Prefix(o, Prefix(u, a)) : o \in PrefixLits, u \in PrefixLits, a \in Atoms}
    \cup {Prefix(o, Infix(u, a, b)) :
             o \in PrefixLits, u \in {"+", "-", "<", "=="}, a \in Atoms, b \in Atoms}
    \cup {Infix(o, Prefix("-", a), b) : o \in InfixLits, a \in Atoms, b \in Atoms}
    \cup {Infix(o, a, Prefix("-", b)) : o \in InfixLits, a \in Atoms, b \in Atoms}

\* 1 + true: an expression that evaluates to an Error
ErrExpr == Infix("+", IntLit(1), Bool(TRUE))

Probes == {IntLit(1), Bool(FALSE), ErrExpr}

Stmts0 == {ExprStmt(e) : e \in Probes} \cup {Return(e) : e \in Probes}

Blocks0 == {Block(ss) : ss \in SeqsUpTo(Stmts0, MaxStmts)}

ReturningIf == If(Bool(TRUE), Block(<<Return(IntLit(2))>>), Nil)

Elses == {Nil, Block(<<>>), Block(<<ExprStmt(IntLit(2))>>), Block(<<Return(IntLit(2))>>),
          ReturningIf, IntLit(2)}

Ifs0 == {If(c, b, e) : c \in {Bool(TRUE), Bool(FALSE), IntLit(0), ErrExpr},
                       b \in Blocks0, e \in Elses}

\* if-expressions yielding nil, a ReturnValue, an Integer, Null and an Error
IfCore == {If(Bool(TRUE), Block(<<>>), Nil),
           ReturningIf,
           If(Bool(TRUE), Block(<<ExprStmt(IntLit(1))>>), Nil),
           If(Bool(FALSE), Block(<<>>), Nil),
           If(ErrExpr, Block(<<>>), Nil)}

\* if-expressions as operands, conditions and return values
Nested ==
    {Prefix(o, i) : o \in PrefixLits, i \in IfCore}
    \cup {Infix(o, i, a) : o \in InfixLits, i \in IfCore, a \in Atoms}
    \cup {Infix(o, a, i) : o \in InfixLits, i \in IfCore, a \in Atoms}
    \cup {If(i, b, Nil) : i \in IfCore, b \in Blocks0}
    \cup {Return(i) : i \in IfCore}

\* if (true) { if (true) { return 10; } return 1; }
NestedReturnExample ==
    If(Bool(TRUE),
       Block(<<ExprStmt(If(Bool(TRUE), Block(<<Return(IntLit(10))>>), Nil)),
               Return(IntLit(1))>>),
       Nil)

\* an if-expression as the first statement of an if-body
DeepIfs ==
    {NestedReturnExample}
    \cup {If(c, Block(<<ExprStmt(i)>> \o rest), Nil) :
            c \in {Bool(TRUE), Bool(FALSE)}, i \in IfCore,
            rest \in {<<>>, <<Return(IntLit(1))>>, <<ExprStmt(IntLit(1))>>}}

Exprs == Simple \cup Compound \cup Ifs0 \cup Nested \cup DeepIfs

TopStmts ==
    {ExprStmt(e) : e \in Probes \cup IfCore \cup {NestedReturnExample}}
    \cup {Return(e) : e \in Probes \cup IfCore}

Programs ==
    {Program(ss) : ss \in SeqsUpTo(TopStmts, MaxStmts)}
    \cup {Program(<<ExprStmt(e)>>) : e \in Exprs}

Trees == Programs \cup Exprs \cup Blocks0

(***************************************************************************)
(* Specification of Eval on trees handed to it directly                    *)
(***************************************************************************)
InitEval ==
    /\ p = New(<<>>)
    /\ program = <<>>
    /\ stmt = Nil
    /\ pc = "done"
    /\ ast \in Trees
    /\ InitEvalVars

NextEval == EvalCall

EvalSpec == InitEval /\ [][NextEval]_vars

(***************************************************************************)
(* Claims about the parser                                                 *)
(***************************************************************************)
Input == p.l.input

\* C1: Parse terminates on every finite token sequence, `let` and `return`
\* statements with no semicolon before end-of-input included.
C1_ParseTerminates == <>(pc = "done")

\* the input is `let <identifier>` followed by something other than `=`
LetMissingAssign(input) ==
    /\ Len(input) >= 2
    /\ input[1].type = "LET"
    /\ input[2].type = "IDENT"
    /\ (Len(input) >= 3 => input[3].type # "ASSIGN")

AfterLet(input) == SubSeq(input, 3, Len(input))

IsSuffix(s, t) ==
    Len(s) <= Len(t) /\ SubSeq(t, Len(t) - Len(s) + 1, Len(t)) = s

\* the parser of `let x` \o rest, once the `let` has failed, is where a parser
\* of rest alone is after k steps: same tokens, same place in the loops, the
\* same statements after those of the `let`, the same diagnostics after its one
C7_Resumed(k) ==
    LET rest == AfterLet(Input)
        r == ParseRun(StartParse(rest), k)
        found == IF rest = <<>> THEN "EOF" ELSE rest[1].type
    IN  /\ r.pc = pc
        /\ r.stmt = stmt
        /\ r.p.curTok = p.curTok
        /\ r.p.peekTok = p.peekTok
        /\ r.p.l.position + 2 = p.l.position
        /\ IsSuffix(r.program, program)
        /\ p.errors = <<"expected next token to be ASSIGN, got " \o found
                        \o " instead">> \o r.p.errors

\* C7: a `let` whose identifier is not followed by `=` appends the diagnostic
\* "expected next token to be <expected>, got <peek type> instead", leaves the
\* offending token unconsumed, and the top-level loop parses the tokens that
\* follow as further statements, which appear in the Program.
C7_LetRecovery ==
    LetMissingAssign(Input) /\ p.errors # <<>> =>
        \E k \in 0..(Len(AfterLet(Input)) + 2) : C7_Resumed(k)

C7_Witness ==
    /\ LetMissingAssign(Input)
    /\ pc = "done"
    /\ Len(program) >= 2
    /\ program[Len(program)] = ExprStmt(IntLit(1))

\* C8: after Parse every element of Program.Statements is a statement that was
\* built: a `let` that fails an expected-token check contributes a diagnostic
\* and no element.
C8_FailedLetOmitted ==
    pc = "done" => \A i \in 1..Len(program) : program[i] # NilLetStatement

\* the binding strength the precedence table gives an operator
C6_Level(lit) ==
    CASE lit \in {"==", "!="} -> 1
      [] lit \in {"<", ">", "<=", ">="} -> 2
      [] lit \in {"+", "-"} -> 3
      [] lit \in {"*", "/"} -> 4

C6_Operand(t) == IntLit(t.digits[1])

\* the tree the precedence and associativity rules give an input of ExprInputs
C6_Expected(in) ==
    IF Len(in) = 5
    THEN IF C6_Level(in[2].lit) >= C6_Level(in[4].lit)
         THEN Infix(in[4].lit,
                    Infix(in[2].lit, C6_Operand(in[1]), C6_Operand(in[3])),
                    C6_Operand(in[5]))
         ELSE Infix(in[2].lit, C6_Operand(in[1]),
                    Infix(in[4].lit, C6_Operand(in[3]), C6_Operand(in[5])))
    ELSE IF in[1].type = "LPAREN"
    THEN Infix(in[6].lit,
               Infix(in[3].lit, C6_Operand(in[2]), C6_Operand(in[4])),
               C6_Operand(in[7]))
    ELSE Infix(in[2].lit, C6_Operand(in[1]),
               Infix(in[5].lit, C6_Operand(in[4]), C6_Operand(in[6])))

C6_Tokens(a, o1, b, o2, c) ==
    <<tINT(a), Tok(o1[1], o1[2]), tINT(b), Tok(o2[1], o2[2]), tINT(c)>>

C6_Minus == <<"MINUS", "-">>
C6_Plus == <<"PLUS", "+">>
C6_Times == <<"ASTERISK", "*">>

\* C6: in the tree parseExpression(LOWEST) builds, a higher-precedence operator
\* binds tighter, operators of equal precedence group to the left and a
\* parenthesized sub-expression is one operand; evaluated, 1 - 2 - 3 = -4,
\* 2 * 3 * 4 = 24, 1 + 2 * 3 = 7 and (1 + 2) * 3 = 9.
C6_Precedence ==
    /\ pc = "done" /\ Input \in ExprInputs =>
          /\ program = <<ExprStmt(C6_Expected(Input))>>
          /\ p.errors = <<>>
    /\ evals >= 1 =>
          /\ Input = C6_Tokens(1, C6_Minus, 2, C6_Minus, 3)
                => View(heap, result, panic) = <<"INTEGER", -4>>
          /\ Input = C6_Tokens(2, C6_Times, 3, C6_Times, 4)
                => View(heap, result, panic) = <<"INTEGER", 24>>
          /\ Input = C6_Tokens(1, C6_Plus, 2, C6_Times, 3)
                => View(heap, result, panic) = <<"INTEGER", 7>>
          /\ Input = <<tLPAREN, tINT(1), OpTok(C6_Plus), tINT(2), tRPAREN,
                       OpTok(C6_Times), tINT(3)>>
                => View(heap, result, panic) = <<"INTEGER", 9>>

C6_Witness ==
    /\ evals >= 1
    /\ Input = C6_Tokens(1, C6_Minus, 2, C6_Minus, 3)
    /\ program = <<ExprStmt(Infix("-", Infix("-", IntLit(1), IntLit(2)), IntLit(3)))>>
    /\ View(heap, result, panic) = <<"INTEGER", -4>>

(***************************************************************************)
(* Claims about the evaluator                                              *)
(***************************************************************************)
ValueKinds == {"INTEGER", "BOOLEAN", "NULL", "ERROR", "RETURN_VALUE"}

\* C2: when no `/` divides by zero, Eval raises no runtime fault and returns a
\* present value of kind Integer, Boolean, Null, Error or ReturnValue, never
\* nil; a Program or BlockStatement of zero statements and an operator applied
\* to an if-expression with an empty body included.
C2_EvalTotal ==
    evals >= 1 /\ panic # "integer divide by zero" =>
        /\ panic = ""
        /\ result # 0
        /\ heap[result].kind \in ValueKinds

\* the events of the last evaluation
Events == 1..Len(trace)
IsExit(j) == trace[j].ev = "exit"
IsEnter(j) == trace[j].ev = "enter"

\* the entry of the Eval call that made call j
HasParent(j) == trace[j].depth > 0
Parent(j) ==
    CHOOSE i \in Events :
        /\ i < j /\ IsEnter(i) /\ trace[i].depth = trace[j].depth - 1
        /\ \A m \in Events :
              m < j /\ IsEnter(m) /\ trace[m].depth = trace[j].depth - 1 => m <= i

\* exit j returns from a call made directly by a node of one of these kinds
ChildOf(j, kinds) == IsExit(j) /\ HasParent(j) /\ trace[Parent(j)].node \in kinds

Yields(j, kind) == IsExit(j) /\ trace[j].obj.kind = kind

\* exit j returns the condition of an if-expression: the first call it makes
IsCondition(j) ==
    /\ ChildOf(j, {"IfExpression"})
    /\ \A m \in Events :
          Parent(j) < m /\ m < j /\ IsExit(m) => trace[m].depth # trace[j].depth

\* C3: the first statement of a Program to yield a ReturnValue ends the
\* Program, which returns the wrapped payload and evaluates no later statement;
\* a BlockStatement returns the ReturnValue still wrapped, so that a return
\* nested in if-bodies ends the whole program with its own payload:
\* if (true) { if (true) { return 10; } return 1; } yields 10.
C3_ReturnPropagation ==
    evals >= 1 =>
        /\ \A j \in Events :
              ChildOf(j, {"Program"}) /\ Yields(j, "RETURN_VALUE") =>
                  /\ panic = ""
                  /\ result = trace[j].obj.value
                  /\ j + 1 = Len(trace)
                  /\ IsExit(j + 1) /\ trace[j + 1].node = "Program"
        /\ \A j \in Events :
              ChildOf(j, {"BlockStatement"}) /\ Yields(j, "RETURN_VALUE") =>
                  /\ j + 1 \in Events
                  /\ IsExit(j + 1) /\ trace[j + 1].node = "BlockStatement"
                  /\ trace[j + 1].ref = trace[j].ref
        /\ ast = Program(<<ExprStmt(NestedReturnExample)>>) =>
              View(heap, result, panic) = <<"INTEGER", 10>>

C3_Witness ==
    /\ evals >= 1
    /\ ast = Program(<<ExprStmt(NestedReturnExample)>>)
    /\ View(heap, result, panic) = <<"INTEGER", 10>>
    /\ \E j \in Events : ChildOf(j, {"BlockStatement"}) /\ Yields(j, "RETURN_VALUE")
    /\ \E j \in Events : ChildOf(j, {"Program"}) /\ Yields(j, "RETURN_VALUE")

\* 5 + true; 10 with the literals of the generated trees
C4_Example == Program(<<ExprStmt(ErrExpr), ExprStmt(IntLit(1))>>)

\* C4: once a sub-node yields an Error no later sibling is evaluated, and the
\* enclosing evaluation returns that same Error, its message unchanged; for
\* `5 + true; 10` the result is a type-mismatch Error and `10` is not evaluated.
C4_ErrorShortCircuit ==
    evals >= 1 =>
        /\ \A i \in Events :
              Yields(i, "ERROR") =>
                  /\ \A j \in Events : j > i => IsExit(j) /\ trace[j].ref = trace[i].ref
                  /\ panic = ""
                  /\ result = trace[i].ref
                  /\ heap[result] = trace[i].obj
        /\ ast = C4_Example =>
              /\ View(heap, result, panic) = <<"ERROR", "type mismatch: INTEGER + BOOLEAN">>
              /\ Cardinality({j \in Events : IsEnter(j) /\ trace[j].node = "IntLiteral"}) = 1

C4_Witness ==
    /\ evals >= 1
    /\ ast = C4_Example
    /\ View(heap, result, panic) = <<"ERROR", "type mismatch: INTEGER + BOOLEAN">>
    /\ Cardinality({j \in Events : IsEnter(j) /\ trace[j].node = "ExpressionStatement"}) = 1

\* C5: `true == 1` yields an Error with message
\* "type mismatch: BOOLEAN == INTEGER", and `true == true` yields the true singleton.
C5_EqualityAcrossTypes ==
    evals >= 1 =>
        /\ ast = Infix("==", Bool(TRUE), IntLit(1)) =>
              View(heap, result, panic) = <<"ERROR", "type mismatch: BOOLEAN == INTEGER">>
        /\ ast = Infix("==", Bool(TRUE), Bool(TRUE)) => panic = "" /\ result = TRUE_

\* C5 as amended: `==` and `!=` on a Boolean and an Integer compare the two
\* objects by identity and yield the false and the true singleton; the other
\* operators yield "type mismatch: BOOLEAN <op> INTEGER"; `true == true`
\* yields the true singleton.
C5_Amended ==
    evals >= 1 =>
        /\ \A o \in InfixLits, b \in {TRUE, FALSE}, i \in 0..MaxInt :
              ast = Infix(o, Bool(b), IntLit(i)) =>
                  /\ panic = ""
                  /\ o = "==" => result = FALSE_
                  /\ o = "!=" => result = TRUE_
                  /\ o \notin {"==", "!="} =>
                        View(heap, result, panic)
                            = <<"ERROR", "type mismatch: BOOLEAN " \o o \o " INTEGER">>
        /\ ast = Infix("==", Bool(TRUE), Bool(TRUE)) => panic = "" /\ result = TRUE_

C5_Witness ==
    /\ evals >= 1
    /\ ast = Infix("==", Bool(TRUE), IntLit(1))
    /\ panic = ""
    /\ result = FALSE_

\* the singletons are as the package initialised them
C9_Singletons ==
    /\ heap[NULL] = [kind |-> "NULL"]
    /\ heap[TRUE_] = [kind |-> "BOOLEAN", value |-> TRUE]
    /\ heap[FALSE_] = [kind |-> "BOOLEAN", value |-> FALSE]

\* C9: Eval is stateless across calls: the singletons are never changed, the
\* Integer that unary `-` negates in place is one made by the current call (no
\* object that existed before a call is changed by it, nor is the tree), and
\* evaluating the same tree again yields an equal result.
C9_Stateless ==
    /\ [](C9_Singletons /\ (evals >= 2 => View(heap, result, panic) = prev))
    /\ [][ast' = ast /\ \A a \in 1..Len(heap) : heap'[a] = heap[a]]_vars

C9_Witness ==
    /\ evals >= 2
    /\ ast = Prefix("-", IntLit(1))
    /\ prev = <<"INTEGER", -1>>
    /\ View(heap, result, panic) = <<"INTEGER", -1>>

\* C10: the value Eval returns for a Program is never a ReturnValue, a return
\* whose expression is an if-expression executing a return included, and a
\* ReturnValue is never an operand of a prefix or infix operator nor an
\* if-condition.
C10_NoReturnValueEscapes ==
    evals >= 1 =>
        /\ ast.kind = "Program" /\ panic = "" /\ result # 0 =>
              heap[result].kind # "RETURN_VALUE"
        /\ \A j \in Events :
              ChildOf(j, {"PrefixExpression", "InfixExpression"}) \/ IsCondition(j) =>
                  ~Yields(j, "RETURN_VALUE")

====
